---- MODULE Spec2Model ----
(***************************************************************************)
(* Country population guessing game (src/main.py).                         *)
(*                                                                         *)
(* The program is a single sequential process.  Its parts are modelled as  *)
(* state machines over one set of variables:                               *)
(*   GuessSpec  check_user_guess applied to drawn inputs                   *)
(*   SelSpec    set_countries called with a drawn previous pair, its       *)
(*              random draws fair                                          *)
(*   CarrySpec  set_countries called with a drawn previous pair, on        *)
(*              longer catalogs of different countries                     *)
(*   Spec       main from game_loop on: rounds, username, leaderboard      *)
(*   TopSpec    get_top_scores applied to a drawn table and amount         *)
(*   CacheSpec  get_country_information / make_country_request over        *)
(*              several runs of the program                                *)
(***************************************************************************)
EXTENDS Integers, Sequences, FiniteSets

VARIABLES
    pc,             \* position of the process
    catalog,        \* names_and_populations : sequence of Country
    country1,       \* country_1 / country1 (NoCountry models None)
    country2,       \* country_2 / country2
    prev1,          \* SelSpec: first argument of the set_countries call
    prev2,          \* SelSpec: second argument of the set_countries call
    ret,            \* who called set_countries: "game_loop" or "caller"
    user_guess,     \* game_loop: user_guess
    play_again,     \* game_loop: play_again (a sequence of characters)
    score,          \* game_loop: score
    answers,        \* verdict of check_user_guess for each guess made so far
    final,          \* main: score returned by game_loop (-1 before the return)
    typed,          \* text last typed at the username prompt
    username,       \* get_user_name: username (a sequence of characters)
    dbExists,       \* the table country_information exists
    table,          \* rows of country_information, in storage order
    oldTable,       \* rows of country_information when the run started
    amount,         \* get_top_scores: amount
    scores,         \* result of get_top_scores
    cacheExists,    \* os.path.exists(JSON_FILE)
    cacheMtime,     \* os.path.getmtime(JSON_FILE)
    cacheBody,      \* content of JSON_FILE
    progMtime,      \* os.path.getmtime(__file__)
    now,            \* wall clock
    status,         \* request.status_code of the last response (0: none yet)
    body,           \* request.text of the last response
    result,         \* value returned by get_country_information
    fetches         \* number of HTTP GETs performed so far

vars == << pc, catalog, country1, country2, prev1, prev2, ret, user_guess,
           play_again, score, answers, final, typed, username, dbExists,
           table, oldTable, amount, scores, cacheExists, cacheMtime,
           cacheBody, progMtime, now, status, body, result, fetches >>

selVars   == << catalog, country1, country2, prev1, prev2, ret >>
gameVars  == << user_guess, play_again, score, answers, final >>
nameVars  == << typed, username >>
dbVars    == << dbExists, table, oldTable, amount, scores >>
cacheVars == << cacheExists, cacheMtime, cacheBody, progMtime, now, status,
                body, result, fetches >>

----------------------------------------------------------------------------
(* Bounds of the model *)

MaxCatalog == 2     \* longest catalog drawn
MaxLong    == 4     \* longest catalog of different countries drawn
MaxScore   == 2     \* rounds a game may be continued
MaxText    == 1     \* longest text typed at the continue prompt
MaxName    == 3     \* longest text typed at the username prompt
MaxRows    == 2     \* most rows in a drawn leaderboard table
MaxOldRows == 1     \* most rows in the table before a run of main
MaxAmount  == 3     \* largest amount passed to get_top_scores
MaxBelow   == 2     \* amounts are drawn from -MaxBelow .. MaxAmount
MaxTicks   == 2     \* days, and seconds of a day, the clock runs on
MaxFetches == 2     \* HTTP GETs counted

(* Program constants *)

Day         == 86400    \* seconds subtracted from the program file's mtime
TopN        == 5        \* main: get_top_scores(5)
NameLen     == 3        \* get_user_name: len(username) != 3
HttpOk      == 200      \* make_country_request: status_code == 200

----------------------------------------------------------------------------
(* Data *)

MaxPopulation == 2

Names       == {"A", "B"}
Populations == 1..MaxPopulation

\* @dataclass Country: equality is by value (name, population)
Country   == [name : Names, population : Populations]
NoCountry == [name |-> "None", population |-> -1]

SeqsUpTo(S, n) == UNION {[1..k -> S] : k \in 0..n}

Catalogs     == SeqsUpTo(Country, MaxCatalog)

\* catalogs that list no country twice, as the endpoint serves them
LongCatalogs ==
    {c \in SeqsUpTo(Country, MaxLong) :
        \A i, j \in 1..Len(c) : c[i] = c[j] => i = j}

Range(s) == {s[i] : i \in 1..Len(s)}

\* what get_country_information returned: a parsed document, None, or the
\* JSONDecodeError that ended the run
NoResult   == [kind |-> "", doc |-> << >>]
NoneResult == [kind |-> "None", doc |-> << >>]

\* Values of the variables a specification does not use
SelIdle ==
    /\ catalog = << >>
    /\ country1 = NoCountry /\ country2 = NoCountry
    /\ prev1 = NoCountry /\ prev2 = NoCountry
    /\ ret = "caller"

GameIdle ==
    /\ user_guess = "" /\ play_again = << >>
    /\ score = 0 /\ answers = << >> /\ final = -1

NameIdle == typed = << >> /\ username = << >>

DbIdle ==
    /\ dbExists = FALSE /\ table = << >> /\ oldTable = << >>
    /\ amount = 0 /\ scores = << >>

CacheIdle ==
    /\ cacheExists = FALSE /\ cacheMtime = 0 /\ cacheBody = ""
    /\ progMtime = 0 /\ now = 0 /\ status = 0 /\ body = ""
    /\ result = NoResult /\ fetches = 0

----------------------------------------------------------------------------
(* check_user_guess *)

Guesses == {"1", "2"}

\* texts that may be typed at the guess prompt
GuessTexts == {"1", "2", "3", ""}

GuessStrict(c1, c2, guess) ==
    \/ guess = "1" /\ c1.population > c2.population
    \/ guess # "1" /\ c2.population > c1.population

check_user_guess(c1, c2, guess) ==
    \/ guess = "1" /\ c1.population >= c2.population
    \/ guess # "1" /\ c2.population >= c1.population

GuessInit ==
    /\ pc = "check_user_guess"
    /\ catalog = << >>
    /\ country1 \in Country /\ country2 \in Country
    /\ prev1 = NoCountry /\ prev2 = NoCountry /\ ret = "caller"
    /\ user_guess \in GuessTexts
    /\ play_again = << >> /\ score = 0 /\ answers = << >> /\ final = -1
    /\ NameIdle /\ DbIdle /\ CacheIdle

CallCheckUserGuess ==
    /\ pc = "check_user_guess"
    /\ answers' = << check_user_guess(country1, country2, user_guess) >>
    /\ pc' = "checked"
    /\ UNCHANGED << selVars, user_guess, play_again, score, final,
                    nameVars, dbVars, cacheVars >>

GuessNext == CallCheckUserGuess

GuessSpec == GuessInit /\ [][GuessNext]_vars

\* C1: for guesses "1" and "2", check_user_guess is true exactly when the
\* guessed country's population is at least the other's; so a tie is right
\* for both guesses, and with population(country1) > population(country2)
\* guess "1" is right and guess "2" is wrong.
C1_GuessVerdict ==
    (pc = "checked" /\ user_guess \in Guesses) =>
        LET p1 == country1.population
            p2 == country2.population
            v  == answers[1]
        IN  /\ v <=> ( \/ (user_guess = "1" /\ p1 >= p2)
                       \/ (user_guess = "2" /\ p2 >= p1) )
            /\ (p1 = p2) => v
            /\ (p1 > p2) => (v <=> user_guess = "1")

\* a tie between two different countries has been judged, for guess "2"
C1_Witness ==
    /\ pc = "checked" /\ user_guess = "2"
    /\ country1 # country2
    /\ country1.population = country2.population
    /\ answers = << TRUE >>

----------------------------------------------------------------------------
(* set_countries *)

Coins == {0, 1}     \* randint(0, 1)

\* re-rolls both sides instead of one
RollBoth(c1, c2, cat, i, j, coin, k) == << cat[k], cat[i] >>

\* lines 108-117 of one call: i and j are the picks of the two choice()
\* calls that fill a missing side, coin is randint(0, 1), and k is the pick
\* of the choice() call that re-rolls one side
Roll(c1, c2, cat, i, j, coin, k) ==
    LET a == IF c1 = NoCountry THEN cat[i] ELSE c1
        b == IF c2 = NoCountry THEN cat[j] ELSE c2
    IN  IF coin = 0 THEN << cat[k], b >> ELSE << a, cat[k] >>

\* choice() is called for a side only when it is None
FillPicks(c) == IF c = NoCountry THEN 1..Len(catalog) ELSE {1}

\* compares the names only
SameName(a, b) == a.name = b.name

\* line 119: country_1 == country_2, the dataclass's equality by value
SameCountry(a, b) == a = b

\* one call of set_countries up to its return or its recursive call; the
\* recursive call passes the pair just produced, so it is the same action
\* taken again
SetCountries(i, j, coin, k) ==
    /\ pc = "set_countries"
    /\ i \in FillPicks(country1)
    /\ j \in FillPicks(country2)
    /\ k \in 1..Len(catalog)
    /\ LET pair == Roll(country1, country2, catalog, i, j, coin, k)
       IN  /\ country1' = pair[1]
           /\ country2' = pair[2]
           /\ pc' = IF SameCountry(pair[1], pair[2])
                       THEN "set_countries"
                       ELSE IF ret = "game_loop" THEN "round" ELSE "returned"
    /\ UNCHANGED << catalog, prev1, prev2, ret, gameVars, nameVars, dbVars,
                    cacheVars >>

\* choice() of an empty sequence raises IndexError
SetCountriesEmpty ==
    /\ pc = "set_countries"
    /\ catalog = << >>
    /\ pc' = "IndexError"
    /\ UNCHANGED << selVars, gameVars, nameVars, dbVars, cacheVars >>

SelInit ==
    /\ pc = "set_countries"
    /\ catalog \in Catalogs
    /\ country1 \in Range(catalog) \cup {NoCountry}
    /\ country2 \in Range(catalog) \cup {NoCountry}
    /\ prev1 = country1 /\ prev2 = country2
    /\ ret = "caller"
    /\ GameIdle /\ NameIdle /\ DbIdle /\ CacheIdle

Picks == 1..(IF MaxCatalog > MaxLong THEN MaxCatalog ELSE MaxLong)

SelNext ==
    \/ \E i, j, k \in Picks, coin \in Coins : SetCountries(i, j, coin, k)
    \/ SetCountriesEmpty

\* random.choice and random.randint draw independently on every call, so
\* the same outcome is not drawn forever: while some draw changes the pair,
\* such a draw is made sooner or later.  A recursive call that is passed the
\* pair its caller was passed is a step that changes nothing; a run of such
\* steps without end is the recursion that never returns.
SelFairness == WF_vars(SelNext)

SelSpec == SelInit /\ [][SelNext]_vars /\ SelFairness

TwoValues == Cardinality(Range(catalog)) >= 2

CarryInit ==
    /\ pc = "set_countries"
    /\ catalog \in LongCatalogs
    /\ country1 \in Range(catalog) \cup {NoCountry}
    /\ country2 \in Range(catalog) \cup {NoCountry}
    /\ prev1 = country1 /\ prev2 = country2
    /\ ret = "caller"
    /\ GameIdle /\ NameIdle /\ DbIdle /\ CacheIdle

CarrySpec == CarryInit /\ [][SelNext]_vars

Distinct(a, b) == a # NoCountry /\ b # NoCountry /\ a # b

\* C9 as stated: called with two distinct countries, set_countries returns
\* a pair that keeps one of them in its own position.
C9_OwnPosition ==
    (pc = "returned" /\ Distinct(prev1, prev2)) =>
        (country1 = prev1 \/ country2 = prev2)

\* C9 amended: called with two distinct countries, set_countries returns a
\* pair that holds one of them, in either position.
C9_CarriedOver ==
    (pc = "returned" /\ Distinct(prev1, prev2)) =>
        {country1, country2} \cap {prev1, prev2} # {}

\* the carried-over country has changed sides, and the other country is new
C9_Witness ==
    /\ pc = "returned" /\ Distinct(prev1, prev2)
    /\ country1 = prev2
    /\ country2 \notin {prev1, prev2}

----------------------------------------------------------------------------
(* Text typed at the prompts: a sequence of characters *)

Y == << "y" >>
N == << "n" >>

\* characters typed at the continue prompt
ContinueChars == {"y", "Y", "n", "N"}

\* characters typed at the username prompt; Eszett is the letter whose
\* upper case is the two letters SS
Eszett    == "sz"
NameChars == {"a", "B", Eszett}

ContinueTexts == SeqsUpTo(ContinueChars, MaxText)
NameTexts     == SeqsUpTo(NameChars, MaxName)

LowerChar(c) ==
    CASE c = "Y" -> "y"
      [] c = "N" -> "n"
      [] OTHER   -> c

\* leaves the text as typed
LowerNot(s) == s

\* str.lower()
Lower(s) == [i \in 1..Len(s) |-> LowerChar(s[i])]

UpperChar(c) ==
    CASE c = "a"    -> << "A" >>
      [] c = Eszett -> << "S", "S" >>
      [] OTHER      -> << c >>

RECURSIVE Upper(_)
\* str.upper()
Upper(s) == IF s = << >> THEN << >> ELSE UpperChar(Head(s)) \o Upper(Tail(s))

----------------------------------------------------------------------------
(* game_loop *)

\* line 166, at the return of set_countries into game_loop
BeginRound ==
    /\ pc = "round"
    /\ user_guess' = ""
    /\ pc' = "guess"
    /\ UNCHANGED << selVars, play_again, score, answers, final, nameVars,
                    dbVars, cacheVars >>

\* lines 168-171: one pass of the guess prompt
InputGuess(text) ==
    /\ pc = "guess"
    /\ user_guess' = text
    /\ pc' = IF text \in {"1", "2"} THEN "check" ELSE "guess"
    /\ UNCHANGED << selVars, play_again, score, answers, final, nameVars,
                    dbVars, cacheVars >>

\* lines 176-177: score += 1 on a correct guess
ScoreAfter(s, right) == IF right THEN s + 1 ELSE s

\* goes on to the continue prompt whatever the verdict
AfterGuessNoBreak(right) == "continue"

\* lines 176-184: a correct guess goes on to the continue prompt, an
\* incorrect one breaks out of the loop
AfterGuess(right) == IF right THEN "continue" ELSE "return"

\* lines 176-184
CheckGuess ==
    /\ pc = "check"
    /\ LET right == check_user_guess(country1, country2, user_guess)
       IN  /\ score' = ScoreAfter(score, right)
           /\ answers' = Append(answers, right)
           /\ pc' = AfterGuess(right)
    /\ play_again' = << >>
    /\ UNCHANGED << selVars, user_guess, final, nameVars, dbVars, cacheVars >>

\* lines 186-190: one pass of the continue prompt
InputContinue(text) ==
    /\ pc = "continue"
    /\ typed' = text
    /\ play_again' = Lower(text)
    /\ play_again' = Y => score < MaxScore
    /\ pc' = IF play_again' \notin {Y, N} THEN "continue"
             ELSE IF play_again' = N THEN "return"
             ELSE "set_countries"
    /\ UNCHANGED << selVars, user_guess, score, answers, final, username,
                    dbVars, cacheVars >>

\* line 196 and main line 276: game_loop returns score; its parameter and
\* its locals end with the call, and main does not read the catalog again
ReturnScore ==
    /\ pc = "return"
    /\ final' = score
    /\ catalog' = << >>
    /\ country1' = NoCountry /\ country2' = NoCountry
    /\ user_guess' = "" /\ play_again' = << >>
    /\ pc' = "username"
    /\ UNCHANGED << prev1, prev2, ret, score, answers, nameVars, dbVars,
                    cacheVars >>

----------------------------------------------------------------------------
(* get_user_name and the score store *)

\* lines 207-208: one pass of the username prompt
InputUsername(text) ==
    /\ pc = "username"
    /\ typed' = text
    /\ username' = Upper(text)
    /\ pc' = IF Len(username') # NameLen THEN "username"
             ELSE "create_database_file"
    /\ UNCHANGED << selVars, gameVars, dbVars, cacheVars >>

\* CREATE TABLE IF NOT EXISTS
CreateDatabaseFile ==
    /\ pc = "create_database_file"
    /\ dbExists' = TRUE
    /\ table' = IF dbExists THEN table ELSE << >>
    /\ pc' = "save_score"
    /\ UNCHANGED << selVars, gameVars, nameVars, oldTable, amount, scores,
                    cacheVars >>

RECURSIVE MaxId(_)
MaxId(t) ==
    IF t = << >> THEN 0
    ELSE LET m == MaxId(Tail(t)) IN IF Head(t).id > m THEN Head(t).id ELSE m

\* INSERT OR REPLACE keyed on the username
InsertOrReplace(t, name, s) ==
    IF \E i \in 1..Len(t) : t[i].username = name
        THEN [i \in 1..Len(t) |->
                 IF t[i].username = name THEN [t[i] EXCEPT !.score = s]
                 ELSE t[i]]
        ELSE Append(t, [id |-> MaxId(t) + 1, username |-> name, score |-> s])

\* INSERT INTO country_information (username, score) VALUES (?, ?): the id
\* is AUTOINCREMENT
Insert(t, name, s) ==
    Append(t, [id |-> MaxId(t) + 1, username |-> name, score |-> s])

\* save_score(username, score), then main binds the argument of
\* get_top_scores(5)
SaveScore ==
    /\ pc = "save_score"
    /\ table' = Insert(table, username, final)
    /\ amount' = TopN
    /\ pc' = "get_top_scores"
    /\ UNCHANGED << selVars, gameVars, nameVars, dbExists, oldTable, scores,
                    cacheVars >>

Last(s)  == s[Len(s)]
Front(s) == SubSeq(s, 1, Len(s) - 1)

\* x placed behind the rows of sorted whose score is at least x's
InsertDesc(x, sorted) ==
    LET ahead == {i \in 1..Len(sorted) : sorted[i].score >= x.score}
        n     == Cardinality(ahead)
    IN  SubSeq(sorted, 1, n) \o << x >> \o SubSeq(sorted, n + 1, Len(sorted))

\* x placed behind the rows of sorted whose score is at most x's
InsertAsc(x, sorted) ==
    LET ahead == {i \in 1..Len(sorted) : sorted[i].score <= x.score}
        n     == Cardinality(ahead)
    IN  SubSeq(sorted, 1, n) \o << x >> \o SubSeq(sorted, n + 1, Len(sorted))

RECURSIVE OrderByScoreAsc(_)
\* ORDER BY score ASC
OrderByScoreAsc(t) ==
    IF t = << >> THEN << >>
    ELSE InsertAsc(Last(t), OrderByScoreAsc(Front(t)))

RECURSIVE OrderByScoreDesc(_)
\* ORDER BY score DESC; rows of equal score stay in storage order
OrderByScoreDesc(t) ==
    IF t = << >> THEN << >>
    ELSE InsertDesc(Last(t), OrderByScoreDesc(Front(t)))

\* LIMIT ?: a negative limit is no limit (SQLite)
Limit(t, n) ==
    IF n < 0 THEN t
    ELSE IF n >= Len(t) THEN t
    ELSE SubSeq(t, 1, n)

\* SELECT username, score ... and UserScore(username, int(score))
UserScores(t) ==
    [i \in 1..Len(t) |-> [username |-> t[i].username, score |-> t[i].score]]

get_top_scores(t, n) == UserScores(Limit(OrderByScoreDesc(t), n))

GetTopScores ==
    /\ pc = "get_top_scores"
    /\ scores' = get_top_scores(table, amount)
    /\ pc' = "exit"
    /\ UNCHANGED << selVars, gameVars, nameVars, dbExists, table, oldTable,
                    amount, cacheVars >>

----------------------------------------------------------------------------
(* main, from game_loop on *)

StoredNames == { << "A", "B", "A" >>, << "B", "B", "B" >> }
Rows(n)     == [id : 1..n, username : StoredNames, score : 0..MaxScore]

\* tables the program has written: the ids count the inserts
Tables(n) ==
    {t \in SeqsUpTo(Rows(n), n) : \A i \in 1..Len(t) : t[i].id = i}

\* A run of main on a machine that has no database file yet
Init ==
    /\ pc = "set_countries"
    /\ catalog \in Catalogs
    /\ country1 = NoCountry /\ country2 = NoCountry
    /\ prev1 = NoCountry /\ prev2 = NoCountry
    /\ ret = "game_loop"
    /\ GameIdle /\ NameIdle /\ DbIdle /\ CacheIdle

GameNext ==
    \/ \E i, j, k \in Picks, coin \in Coins : SetCountries(i, j, coin, k)
    \/ SetCountriesEmpty
    \/ BeginRound
    \/ \E text \in GuessTexts : InputGuess(text)
    \/ CheckGuess
    \/ \E text \in ContinueTexts : InputContinue(text)
    \/ ReturnScore

StoreNext ==
    \/ \E text \in NameTexts : InputUsername(text)
    \/ CreateDatabaseFile
    \/ SaveScore
    \/ GetTopScores

Next == GameNext \/ StoreNext

Spec == Init /\ [][Next]_vars

CountTrue(s) == Cardinality({i \in 1..Len(s) : s[i]})

InGameLoop == pc \in {"set_countries", "round", "guess", "check", "continue"}

\* C3: the score is 0 at the start and is always the number of correct
\* guesses made so far (so an incorrect guess, an invalid input and a
\* continue answer leave it alone); an incorrect guess is the last guess,
\* after which no round is selected and no continue prompt is shown; and
\* the value game_loop returns is the number of correct guesses.
C3_ScoreAndStop ==
    /\ score = CountTrue(answers)
    /\ final # -1 => final = CountTrue(answers)
    /\ \A i \in 1..Len(answers) :
           ~answers[i] => (i = Len(answers) /\ ~InGameLoop)

\* game_loop has returned 1 after a correct guess, a "y" and a wrong guess
C3_Witness ==
    /\ pc = "username"
    /\ answers = << TRUE, FALSE >>
    /\ final = 1

YesTexts == { << "y" >>, << "Y" >> }
NoTexts  == { << "n" >>, << "N" >> }

\* C8 as stated: at the continue prompt only the texts "y" and "n" are
\* accepted, "n" ends the game and "y" starts a new round; every other
\* text, "Y" and "N" too, is prompted for again.
C8_ExactText ==
    [][pc = "continue" =>
        /\ typed' = Y => pc' = "set_countries"
        /\ typed' = N => pc' = "return"
        /\ typed' \notin {Y, N} => pc' = "continue"]_vars

\* C8 amended: at the continue prompt the texts "y", "Y", "n" and "N" are
\* accepted, "n" and "N" end the game and "y" and "Y" start a new round;
\* every other text is prompted for again, with the score unchanged.
C8_AnyCase ==
    [][pc = "continue" =>
        /\ typed' \in YesTexts => pc' = "set_countries"
        /\ typed' \in NoTexts => pc' = "return"
        /\ typed' \notin YesTexts \cup NoTexts =>
               (pc' = "continue" /\ score' = score)]_vars

\* "Y" was typed at the continue prompt and a new round is being selected
C8_Witness ==
    /\ pc = "set_countries"
    /\ typed = << "Y" >>
    /\ score >= 1

\* main from the return of game_loop on, on any database the program has
\* written, with any score returned
StoreInit ==
    /\ pc = "username"
    /\ SelIdle
    /\ user_guess = "" /\ play_again = << >>
    /\ final \in 0..MaxScore
    /\ score = final
    /\ answers = << >>
    /\ NameIdle
    /\ dbExists \in BOOLEAN
    /\ table \in Tables(MaxOldRows)
    /\ ~dbExists => table = << >>
    /\ oldTable = table
    /\ amount = 0 /\ scores = << >>
    /\ CacheIdle

StoreSpec == StoreInit /\ [][StoreNext]_vars

Saved == pc \in {"get_top_scores", "exit"}

OldRowsKept ==
    /\ ~Saved => table = oldTable
    /\ Saved => /\ Len(table) = Len(oldTable) + 1
                /\ SubSeq(table, 1, Len(oldTable)) = oldTable
                /\ Last(table).score = final

TopInit ==
    /\ pc = "get_top_scores"
    /\ SelIdle /\ GameIdle /\ NameIdle
    /\ dbExists = TRUE
    /\ table \in Tables(MaxRows)
    /\ oldTable = table
    /\ amount \in (-MaxBelow)..MaxAmount
    /\ scores = << >>
    /\ CacheIdle

TopNext == GetTopScores

TopSpec == TopInit /\ [][TopNext]_vars

Occurrences(r) == Cardinality({i \in 1..Len(scores) : scores[i] = r})

StoredRows(r) ==
    Cardinality({i \in 1..Len(table) :
        table[i].username = r.username /\ table[i].score = r.score})

RowsOfTableInOrder ==
    /\ \A r \in Range(scores) : Occurrences(r) <= StoredRows(r)
    /\ \A i \in 1..Len(scores) - 1 : scores[i].score >= scores[i + 1].score

\* C5 as stated: for every table and every integer amount, get_top_scores
\* returns at most amount rows, each a row of the table, in non-increasing
\* order of score.
C5_AnyAmount ==
    pc = "exit" => (Len(scores) <= amount /\ RowsOfTableInOrder)

\* C5 amended: for every table and every amount >= 0, get_top_scores
\* returns at most amount rows; for a negative amount it returns every row
\* of the table; in both cases each returned row is a row of the table and
\* the scores are in non-increasing order.
C5_NonNegativeAmount ==
    pc = "exit" =>
        /\ amount >= 0 => Len(scores) <= amount
        /\ amount < 0 => Len(scores) = Len(table)
        /\ RowsOfTableInOrder

\* a negative amount returned two rows of different scores
C5_Witness ==
    /\ pc = "exit"
    /\ amount < 0
    /\ Len(scores) = 2
    /\ scores[1].score > scores[2].score

----------------------------------------------------------------------------
(* get_country_information and make_country_request, over several runs *)

Statuses == {HttpOk, 404, 500}

\* response bodies and cache file contents; the last one is not JSON
Bodies == {"[A1,B2]", "[B1]", "<html>"}

\* json.load / request.json()
Json(text) ==
    CASE text = "[A1,B2]" ->
            [kind |-> "json",
             doc  |-> << [name |-> "A", population |-> 1],
                         [name |-> "B", population |-> 2] >>]
      [] text = "[B1]" ->
            [kind |-> "json", doc |-> << [name |-> "B", population |-> 1] >>]
      [] OTHER ->
            [kind |-> "JSONDecodeError", doc |-> << >>]

\* measures the age of the cache file against the clock
NeedsRequestByClock ==
    \/ ~cacheExists
    \/ cacheMtime < now - Day

\* requests when the cache file is exactly as old as the threshold too
NeedsRequestAtThreshold ==
    \/ ~cacheExists
    \/ cacheMtime <= progMtime - Day

\* lines 63-66
NeedsRequest ==
    \/ ~cacheExists
    \/ cacheMtime < progMtime - Day

\* lines 63-71: the cache file is read, or make_country_request is called
GetCountryInformation ==
    /\ pc = "get_country_information"
    /\ IF NeedsRequest
          THEN /\ pc' = "make_country_request"
               /\ UNCHANGED result
          ELSE /\ pc' = "from_cache"
               /\ result' = Json(cacheBody)
    /\ UNCHANGED << selVars, gameVars, nameVars, dbVars, cacheExists,
                    cacheMtime, cacheBody, progMtime, now, status, body,
                    fetches >>

\* lines 46-50: the response text is written to JSON_FILE, then the status
\* decides what is returned
MakeCountryRequest(st, text) ==
    /\ pc = "make_country_request"
    /\ fetches < MaxFetches
    /\ fetches' = fetches + 1
    /\ status' = st
    /\ body' = text
    /\ cacheExists' = TRUE
    /\ cacheBody' = text
    /\ cacheMtime' = now
    /\ result' = IF st = HttpOk THEN Json(text) ELSE NoneResult
    /\ pc' = "from_request"
    /\ UNCHANGED << selVars, gameVars, nameVars, dbVars, progMtime, now >>

\* the program is run again; the clock has moved on by d
RunAgain(d) ==
    /\ pc \in {"from_cache", "from_request"}
    /\ (now + d - progMtime) \div Day <= MaxTicks
    /\ (now + d - progMtime) % Day <= MaxTicks
    /\ now' = now + d
    /\ status' = 0 /\ body' = "" /\ result' = NoResult
    /\ pc' = "get_country_information"
    /\ UNCHANGED << selVars, gameVars, nameVars, dbVars, cacheExists,
                    cacheMtime, cacheBody, progMtime, fetches >>

\* the program file was last modified at ProgTime, not after the first run
\* starts; the cache file, when there is one, was written before that run
ProgTime == 2 * Day

CacheInit ==
    /\ pc = "get_country_information"
    /\ SelIdle /\ GameIdle /\ NameIdle /\ DbIdle
    /\ progMtime = ProgTime
    /\ now \in {ProgTime, ProgTime + 1}
    /\ cacheExists \in BOOLEAN
    /\ IF cacheExists
          THEN /\ cacheMtime \in {ProgTime - Day - 1, ProgTime - Day,
                                   ProgTime - Day + 1, ProgTime}
               /\ cacheBody \in Bodies
          ELSE /\ cacheMtime = 0
               /\ cacheBody = ""
    /\ status = 0 /\ body = "" /\ result = NoResult /\ fetches = 0

CacheNext ==
    \/ GetCountryInformation
    \/ \E st \in Statuses, text \in Bodies : MakeCountryRequest(st, text)
    \/ \E d \in {0, 1, Day} : RunAgain(d)

CacheSpec == CacheInit /\ [][CacheNext]_vars

\* C6: make_country_request overwrites the cache file with the response
\* body only when the status is 200; on any other status it returns None
\* and leaves the cache file, or its absence, as it was.
C6_CacheKeptOnError ==
    [][pc = "make_country_request" =>
        /\ status' = HttpOk => (cacheExists' /\ cacheBody' = body')
        /\ status' # HttpOk =>
               /\ result' = NoneResult
               /\ cacheExists' = cacheExists
               /\ cacheBody' = cacheBody
               /\ cacheMtime' = cacheMtime]_vars

Decided == pc = "get_country_information" /\ pc' # pc

\* C7 as stated: get_country_information reads the cache file exactly when
\* the file exists and its modification time is strictly newer than the
\* program file's minus 24 hours; otherwise it makes the HTTP request.
C7_StrictlyNewer ==
    [][Decided =>
        IF cacheExists /\ cacheMtime > progMtime - Day
            THEN pc' = "from_cache" /\ fetches' = fetches
            ELSE pc' = "make_country_request"]_vars

\* C7 amended: get_country_information reads the cache file exactly when
\* the file exists and its modification time is not older than the program
\* file's minus 24 hours (equal counts as fresh); otherwise it makes the
\* HTTP request.
C7_NotOlder ==
    [][Decided =>
        IF cacheExists /\ cacheMtime >= progMtime - Day
            THEN pc' = "from_cache" /\ fetches' = fetches
            ELSE pc' = "make_country_request"]_vars

\* a cache file exactly 24 hours older than the program file was read
C7_Witness ==
    /\ pc = "from_cache"
    /\ cacheMtime = progMtime - Day
    /\ fetches = 0

====
